---- MODULE Spec2Model ----
(***************************************************************************)
(* Model of the mechanical-keyboard sound engine (KeySoundEngine) of       *)
(* tarikaytug/3d-ProductScene.                                             *)
(*                                                                         *)
(* Units.  Frequencies are in Hz, filter Q in 1/100, times in 1e-4 s,      *)
(* volumes in 1e-4.  A value that went through jitter(), and every value   *)
(* stored in a layer next to one, carries a further factor 100000, so      *)
(* that value * (1 + u*2*amount) is exact in integers: layer frequencies   *)
(* are in 1e-5 Hz and layer gains in 1e-9.                                 *)
(***************************************************************************)
EXTENDS Integers, FiniteSets, Sequences

VARIABLES
    ctx,            \* this.ctx: 0 is null, otherwise the identity of the AudioContext
    ctxState,       \* AudioContext.state of this.ctx: "none" while ctx is null
    sampleRate,     \* AudioContext.sampleRate of this.ctx, 0 while ctx is null
    noiseBuffer,    \* this.noiseBuffer: NullBuffer is null
    clock,          \* AudioContext.currentTime of this.ctx
    resumePending,  \* ctx.resume() promises not yet settled
    ctxMade,        \* AudioContext objects constructed so far
    bufMade,        \* AudioBuffer objects created so far
    last,           \* what the latest playDown/playUp call did
    profiles,       \* the contents of the module-level object PROFILES
    jit,            \* the latest application of jitter taken on its own
    graph,          \* the audio nodes of the latest call and their wiring
    store,          \* the state of useConfiguratorStore
    scene,          \* KeyboardModel: what it rendered, its listeners, its keys
    event           \* the latest step of the user interface and what it did

app == <<store, scene, event>>

audio == <<ctx, ctxState, sampleRate, noiseBuffer, clock, resumePending,
           ctxMade, bufMade, last, profiles, jit, graph>>

engine == <<ctx, ctxState, sampleRate, noiseBuffer, clock, resumePending,
            ctxMade, bufMade, last, profiles, graph, app>>

vars == <<ctx, ctxState, sampleRate, noiseBuffer, clock, resumePending,
          ctxMade, bufMade, last, profiles, jit, graph, store, scene, event>>

(***************************************************************************)
(* Bounds of the model.                                                    *)
(***************************************************************************)
MaxPending == 1
MaxClock == 1
MaxNodes == 14

(***************************************************************************)
(* JavaScript values.                                                      *)
(***************************************************************************)
\* undefined / NaN in a numeric position (every real quantity here is >= 0)
NaN == -1

Finite(x) == x # NaN

\* x > 0 as JavaScript evaluates it: false when x is undefined or NaN
Gt0(x) == x # NaN /\ x > 0

\* x * (num/den), NaN-propagating
Times(x, num, den) == IF x = NaN THEN NaN ELSE (x * num) \div den

\* x + y, NaN-propagating
Plus(x, y) == IF x = NaN \/ y = NaN THEN NaN ELSE x + y

\* carry an unjittered value into the fixed-point unit of jittered ones
Exact(x) == IF x = NaN THEN NaN ELSE x * 100000

(***************************************************************************)
(* Profile table.                                                          *)
(***************************************************************************)
\* mutant: every switch given a click frequency but no click decay
ProfilesClickWithoutDecay ==
    [id \in {"red", "blue", "brown", "speed", "black"} |->
        [ baseFreq |-> 160, clickFreq |-> 4200, filterFreq |-> 600,
          filterQ |-> 120, thockDecay |-> 600, clickDecay |-> 0,
          volume |-> 2500 ]]

PROFILES ==
    [ red   |-> [baseFreq |-> 160, clickFreq |-> 0,    filterFreq |-> 600,
                 filterQ |-> 120, thockDecay |-> 600,  clickDecay |-> 0,
                 volume |-> 2500],
      blue  |-> [baseFreq |-> 240, clickFreq |-> 4200, filterFreq |-> 1800,
                 filterQ |-> 200, thockDecay |-> 800,  clickDecay |-> 300,
                 volume |-> 3200],
      brown |-> [baseFreq |-> 200, clickFreq |-> 2200, filterFreq |-> 1000,
                 filterQ |-> 140, thockDecay |-> 700,  clickDecay |-> 150,
                 volume |-> 2800],
      speed |-> [baseFreq |-> 280, clickFreq |-> 0,    filterFreq |-> 1200,
                 filterQ |-> 100, thockDecay |-> 350,  clickDecay |-> 0,
                 volume |-> 2000],
      black |-> [baseFreq |-> 110, clickFreq |-> 0,    filterFreq |-> 400,
                 filterQ |-> 150, thockDecay |-> 1000, clickDecay |-> 0,
                 volume |-> 3000] ]

\* the own keys of PROFILES
ProfileIds == DOMAIN PROFILES

\* names every object literal inherits from Object.prototype
InheritedKeys == {"constructor", "toString"}

\* PROFILES[k] for an inherited k: a function object, none of whose
\* SwitchProfile fields is defined
InheritedValue ==
    [baseFreq |-> NaN, clickFreq |-> NaN, filterFreq |-> NaN, filterQ |-> NaN,
     thockDecay |-> NaN, clickDecay |-> NaN, volume |-> NaN]

\* the switchId arguments the model passes: the five identifiers, the empty
\* string, an unrecognized string, and two inherited property names
SwitchIds == ProfileIds \cup {"", "purple"} \cup InheritedKeys

\* mutant: a current switch kept by the engine, the profile resolved from
\* the identifier of the call before
LookupSticky(switchId) ==
    LET id == IF last.op = "none" THEN switchId ELSE last.switchId
    IN  IF id \in DOMAIN profiles THEN profiles[id]
        ELSE IF id \in InheritedKeys THEN InheritedValue
        ELSE profiles["red"]

\* PROFILES[switchId] ?? PROFILES.red
Lookup(switchId) ==
    IF switchId \in DOMAIN profiles THEN profiles[switchId]
    ELSE IF switchId \in InheritedKeys THEN InheritedValue
    ELSE profiles["red"]

\* mutant: the jittered volume written back into the profile
TableJittered(table, switchId) ==
    IF switchId \in DOMAIN table
    THEN [table EXCEPT ![switchId].volume = @ + 1]
    ELSE table

\* the table after a call: playDown and playUp only read p, no statement
\* assigns to PROFILES or to a field of a profile
TableAfterCall(table, switchId) == table

(***************************************************************************)
(* jitter: u is Math.random() - 0.5 in 1/100, amount in 1/1000.            *)
(***************************************************************************)
DefaultAmount == 40
ClickAmount == 60

\* the extreme draws: Math.random() = 0 and Math.random() = 0.99
JitterDraws == {-50, 49}

\* Math.random() is drawn only where the statement calling jitter runs
DrawsIf(runs) == IF runs THEN JitterDraws ELSE {0}

\* mutant: the draw spread over twice the width, (Math.random() - 0.5) * 4
JitterWide(value, amount, u) ==
    IF value = NaN THEN NaN ELSE value * (100000 + u * 4 * amount)

\* mutant: the draw not centred, Math.random() in place of Math.random() - 0.5
JitterOneSided(value, amount, u) ==
    IF value = NaN THEN NaN ELSE value * (100000 + (u + 50) * 2 * amount)

Jitter(value, amount, u) ==
    IF value = NaN THEN NaN ELSE value * (100000 + u * 2 * amount)

\* private jitter(value: number, amount = 0.04): a call that leaves the
\* amount out gets the default
JitterCall(value, given, u) ==
    Jitter(value, IF given = NaN THEN DefaultAmount ELSE given, u)

\* arguments for jitter on its own: values of the profile fields it is
\* applied to, amounts from 0 to just under 1, draws across [-0.5, 0.5)
JitterValues == {0, 110, 160, 2500, 4200}

JitterAmounts == {0, 40, 60, 500, 999}

UnitDraws == {-50, -25, 0, 25, 49}

NoJitter == [value |-> 0, given |-> NaN, u |-> 0, result |-> 0, before |-> 0]

(***************************************************************************)
(* Audio device manager.                                                   *)
(***************************************************************************)
NullBuffer == [id |-> 0, channels |-> 0, len |-> 0, written |-> 0, data |-> 0]

\* native sample rates the host may give the context
SampleRates == {11025, 44100}

\* initial AudioContext.state: the autoplay policy decides
InitialStates == {"suspended", "running"}

\* stands for the Math.random() samples written into the buffer
NoiseSeeds == {1, 2}

\* what the host does when asked for a device: whether new AudioContext()
\* and ctx.createBuffer() succeed or raise, and what they give
HostOutcomes ==
    [ctorOk : BOOLEAN, bufOk : BOOLEAN, rate : SampleRates,
     state : InitialStates, seed : NoiseSeeds]

\* mutant: the guard of ensureCtx lost, a context built on every call
AlwaysConstruct(c) == TRUE

\* if (!this.ctx)
NeedsContext(c) == c = 0

\* mutant: resume() requested whatever the state
ResumeAlways(state) == TRUE

\* if (this.ctx.state === "suspended")
ResumeWanted(state) == state = "suspended"

\* for (let i = 0; i < len; i++) with len = sampleRate * 0.1, not rounded:
\* the number of indices i it visits
LoopCount(rate) == (rate + 9) \div 10

\* Math.random() * 2 - 1 in 1/100, for Math.random() = r / 100
NoiseFactor(r) == r * 2 - 100

\* Math.random() in 1/100
RandomDraws == 0 .. 99

\* the argument -i / (len * 0.25) of Math.exp, multiplied by len
EnvExponentByLen(i) == -(4 * i)

\* mutant: the length rounded to the nearest integer before createBuffer
BuildNoiseBufferRounded(rate, id, seed) ==
    LET length == (rate + 5) \div 10
    IN  [ id |-> id, channels |-> 1, len |-> length,
          written |-> IF LoopCount(rate) < length THEN LoopCount(rate)
                      ELSE length,
          data |-> seed ]

\* buildNoiseBuffer with this.ctx set: createBuffer(1, sampleRate * 0.1,
\* sampleRate) converts its length to an unsigned long, which truncates;
\* the loop fills every sample
BuildNoiseBuffer(rate, id, seed) ==
    LET length == rate \div 10
    IN  [ id |-> id, channels |-> 1, len |-> length,
          written |-> IF LoopCount(rate) < length THEN LoopCount(rate)
                      ELSE length,
          data |-> seed ]

\* ensureCtx under host outcome h: the engine state it leaves and whether it
\* raised.  `new AudioContext()` raising leaves this.ctx null; createBuffer
\* raising leaves this.ctx set and this.noiseBuffer as it was.
EnsureCtx(h) ==
    LET construct == NeedsContext(ctx)
        madeCtx   == construct /\ h.ctorOk
        madeBuf   == madeCtx /\ h.bufOk
        raised    == construct /\ ~(h.ctorOk /\ h.bufOk)
        state1    == IF madeCtx THEN h.state ELSE ctxState
        resumes   == IF ~raised /\ ResumeWanted(state1) THEN 1 ELSE 0
    IN  [ raised      |-> raised,
          ctorFailed  |-> construct /\ ~h.ctorOk,
          bufFailed   |-> madeCtx /\ ~h.bufOk,
          madeCtx     |-> madeCtx,
          madeBuf     |-> madeBuf,
          ctx         |-> IF madeCtx THEN ctxMade + 1 ELSE ctx,
          ctxState    |-> state1,
          sampleRate  |-> IF madeCtx THEN h.rate ELSE sampleRate,
          clock       |-> IF madeCtx THEN 0 ELSE clock,
          noiseBuffer |-> IF madeBuf
                          THEN BuildNoiseBuffer(h.rate, bufMade + 1, h.seed)
                          ELSE noiseBuffer,
          suspended   |-> ~raised /\ state1 = "suspended",
          resumes     |-> resumes ]

(***************************************************************************)
(* Layers of one signal graph.  A step either raises (an AudioParam        *)
(* refuses a non-finite value with a TypeError) or yields its layers.      *)
(***************************************************************************)
\* exponentialRampToValueAtTime(0.001, ...)
RampFloor == 1000000

Skip == [raised |-> FALSE, layers |-> {}]

Raise == [raised |-> TRUE, layers |-> {}]

Done(layer) == [raised |-> FALSE, layers |-> {layer}]

\* statements in sequence: a raise ends the call, what was started stays
Then(a, b) ==
    IF a.raised THEN a
    ELSE [raised |-> b.raised, layers |-> a.layers \cup b.layers]

AllFinite(xs) == \A x \in xs : Finite(x)

\* if (this.noiseBuffer)
NoiseWanted(buf) == buf # NullBuffer

\* mutant: the click layer built for every profile
ClickAlways(p) == TRUE

\* if (p.clickFreq > 0)
ClickWanted(p) == Gt0(p.clickFreq)

\* mutant: every event plays a buffer of its own
FreshBuffer(buf) == [buf EXCEPT !.id = buf.id + 1]

\* src.buffer = this.noiseBuffer
SourceBuffer(buf) == buf

\* mutant: the source started at a later reading of the clock
StartLate(now) == now + 1

\* src.start(now), thud.start(now), click.start(now)
StartAt(now) == now

\* mutant: the initial gain set 200 ms after the clock reading
EnvelopeLate(now) == now + 2000

\* gain.gain.setValueAtTime(v, now)
EnvelopeAt(now) == now

\* mutant: every source stopped 100 ms sooner
StopEarly(t) == t - 1000

\* mutant: a source started and left running
StopNever(t) == NaN

\* src.stop(t), thud.stop(t), click.stop(t)
StopAt(t) == t

Layer(kind, wave, c, buf, freq, q, gain, now, envEnd, stop) ==
    [ kind |-> kind, wave |-> wave, ctx |-> c, buffer |-> buf,
      freq |-> freq, q |-> q, gain |-> gain, target |-> RampFloor,
      start |-> StartAt(now), envStart |-> EnvelopeAt(now),
      envEnd |-> envEnd, stop |-> StopAt(stop) ]

\* playDown, 1: noise thock
NoiseDown(p, now, c, buf, uF, uV) ==
    LET f == Jitter(p.filterFreq, DefaultAmount, uF)
        g == Jitter(p.volume, DefaultAmount, uV)
        e == Plus(now, p.thockDecay)
    IN  IF ~NoiseWanted(buf) THEN Skip
        ELSE IF ~AllFinite({f, p.filterQ, g, e}) THEN Raise
        ELSE Done(Layer("noise", "buffer", c, SourceBuffer(buf), f, p.filterQ,
                        g, now, e, now + 1500))

\* mutant: the thud's envelope follows the body decay of the profile
ThudDownSlow(p, now, c, uB) ==
    LET f == Jitter(p.baseFreq, DefaultAmount, uB)
        g == Exact(Times(p.volume, 45, 100))
        e == Plus(now, p.thockDecay)
    IN  IF ~AllFinite({f, g, e}) THEN Raise
        ELSE Done(Layer("thud", "sine", c, NullBuffer, f, 0, g, now,
                        e, e + 100))

\* playDown, 2: tonal thud
ThudDown(p, now, c, uB) ==
    LET f == Jitter(p.baseFreq, DefaultAmount, uB)
        g == Exact(Times(p.volume, 45, 100))
    IN  IF ~AllFinite({f, g}) THEN Raise
        ELSE Done(Layer("thud", "sine", c, NullBuffer, f, 0, g, now,
                        now + 400, now + 500))

\* playDown, 3: click
ClickDown(p, now, c, uC) ==
    LET f == Jitter(p.clickFreq, ClickAmount, uC)
        g == Exact(Times(p.volume, 25, 100))
        e == Plus(now, p.clickDecay)
    IN  IF ~ClickWanted(p) THEN Skip
        ELSE IF ~AllFinite({f, g, e}) THEN Raise
        ELSE Done(Layer("click", "square", c, NullBuffer, f, 0, g, now,
                        e, e + 50))

\* mutant: the release plays the noise body of the down-stroke
NoiseUpAsDown(p, now, c, buf, uF) ==
    LET f == Jitter(p.filterFreq, DefaultAmount, uF)
        g == Jitter(p.volume, DefaultAmount, uF)
        e == Plus(now, p.thockDecay)
    IN  IF ~NoiseWanted(buf) THEN Skip
        ELSE IF ~AllFinite({f, p.filterQ, g, e}) THEN Raise
        ELSE Done(Layer("noise", "buffer", c, SourceBuffer(buf), f, p.filterQ,
                        g, now, e, now + 1500))

\* playUp: noise thock
NoiseUp(p, now, c, buf, uF) ==
    LET f == Jitter(Times(p.filterFreq, 14, 10), DefaultAmount, uF)
        q == Times(p.filterQ, 8, 10)
        g == Exact(Times(p.volume, 35, 100))
        e == Plus(now, Times(p.thockDecay, 6, 10))
    IN  IF ~NoiseWanted(buf) THEN Skip
        ELSE IF ~AllFinite({f, q, g, e}) THEN Raise
        ELSE Done(Layer("noise", "buffer", c, SourceBuffer(buf), f, q, g, now,
                        e, now + 1000))

\* mutant: the release plays the click of the down-stroke
ClickUpAsDown(p, now, c, uC) ==
    LET f == Jitter(p.clickFreq, ClickAmount, uC)
        g == Exact(Times(p.volume, 25, 100))
        e == Plus(now, p.clickDecay)
    IN  IF ~ClickWanted(p) THEN Skip
        ELSE IF ~AllFinite({f, g, e}) THEN Raise
        ELSE Done(Layer("click", "square", c, NullBuffer, f, 0, g, now,
                        e, e + 50))

\* playUp: click on release
ClickUp(p, now, c, uC) ==
    LET f == Jitter(Times(p.clickFreq, 8, 10), DefaultAmount, uC)
        g == Exact(Times(p.volume, 15, 100))
        e == Plus(now, Times(p.clickDecay, 7, 10))
    IN  IF ~ClickWanted(p) THEN Skip
        ELSE IF ~AllFinite({f, g, e}) THEN Raise
        ELSE Done(Layer("click", "square", c, NullBuffer, f, 0, g, now,
                        e, e + 50))

\* the body of playDown after ensureCtx
DownLayers(p, now, c, buf, uF, uV, uB, uC) ==
    Then(Then(NoiseDown(p, now, c, buf, uF, uV), ThudDown(p, now, c, uB)),
         ClickDown(p, now, c, uC))

\* mutant: the release plays the bottom-out thud too
UpLayersWithThud(p, now, c, buf, uF, uC) ==
    Then(Then(NoiseUp(p, now, c, buf, uF), ThudDown(p, now, c, uF)),
         ClickUp(p, now, c, uC))

\* the body of playUp after ensureCtx
UpLayers(p, now, c, buf, uF, uC) ==
    Then(NoiseUp(p, now, c, buf, uF), ClickUp(p, now, c, uC))

(***************************************************************************)
(* Audio nodes.  Nodes are numbered in the order the context creates them; *)
(* a connection is a pair <<from, to>>.                                    *)
(***************************************************************************)
\* ctx.destination
Destination == 0

NoGraph == [made |-> 0, base |-> 0, nodes |-> {}, edges |-> {}, kept |-> {}]

NoChain(base) == [nodes |-> {}, edges |-> {}, top |-> base]

\* mutant: a layer's gain connected to the node created just before the
\* layer in place of ctx.destination
ChainShared(l, base) ==
    IF l.wave = "buffer"
    THEN [ nodes |-> {[id |-> base + 1, type |-> "source"],
                      [id |-> base + 2, type |-> "filter"],
                      [id |-> base + 3, type |-> "gain"]},
           edges |-> {<<base + 1, base + 2>>, <<base + 2, base + 3>>,
                      <<base + 3, base>>},
           top |-> base + 3 ]
    ELSE [ nodes |-> {[id |-> base + 1, type |-> "source"],
                      [id |-> base + 2, type |-> "gain"]},
           edges |-> {<<base + 1, base + 2>>, <<base + 2, base>>},
           top |-> base + 2 ]

\* the nodes one layer creates, after `base` nodes exist, and its wiring:
\* src.connect(bp).connect(gain).connect(ctx.destination) for the noise
\* layer, osc.connect(oscGain).connect(ctx.destination) for an oscillator
Chain(l, base) ==
    IF l.wave = "buffer"
    THEN [ nodes |-> {[id |-> base + 1, type |-> "source"],
                      [id |-> base + 2, type |-> "filter"],
                      [id |-> base + 3, type |-> "gain"]},
           edges |-> {<<base + 1, base + 2>>, <<base + 2, base + 3>>,
                      <<base + 3, Destination>>},
           top |-> base + 3 ]
    ELSE [ nodes |-> {[id |-> base + 1, type |-> "source"],
                      [id |-> base + 2, type |-> "gain"]},
           edges |-> {<<base + 1, base + 2>>, <<base + 2, Destination>>},
           top |-> base + 2 ]

\* the chain of the layer played through `wave`, if the call has one
ChainOf(layers, wave, base) ==
    LET ls == {l \in layers : l.wave = wave}
    IN  IF ls = {} THEN NoChain(base) ELSE Chain(CHOOSE l \in ls : TRUE, base)

\* the nodes of one call, in the order of its statements: noise, thud, click
Chains(layers, base) ==
    LET c1 == ChainOf(layers, "buffer", base)
        c2 == ChainOf(layers, "sine", c1.top)
        c3 == ChainOf(layers, "square", c2.top)
    IN  [ nodes |-> c1.nodes \cup c2.nodes \cup c3.nodes,
          edges |-> c1.edges \cup c2.edges \cup c3.edges,
          top |-> c3.top ]

\* the nodes the engine object still refers to once the call has returned:
\* src, bp, gain, thud, thudGain, click and clickGain are locals of the call,
\* and the fields of the engine are ctx and noiseBuffer
Retained(nodes) == {}

(***************************************************************************)
(* Operations.                                                             *)
(***************************************************************************)
NoCall ==
    [ op |-> "none", switchId |-> "", outcome |-> "none",
      ctorFailed |-> FALSE, bufFailed |-> FALSE, madeCtx |-> FALSE,
      madeBuf |-> FALSE, hadBuffer |-> FALSE, suspended |-> FALSE,
      resumes |-> 0, stateAtReturn |-> "none", now |-> 0, clockReads |-> 0,
      layers |-> {} ]

\* the host is asked for a device only when ensureCtx constructs one
Asked == IF NeedsContext(ctx) THEN HostOutcomes
         ELSE {[ctorOk |-> TRUE, bufOk |-> TRUE, rate |-> sampleRate,
                state |-> ctxState, seed |-> 1]}

\* one trigger call: e is what ensureCtx did, g what the body did with the
\* single reading e.clock of ctx.currentTime
Call(op, switchId, e, g) ==
    /\ resumePending + e.resumes <= MaxPending
    /\ ctx' = e.ctx
    /\ ctxState' = e.ctxState
    /\ sampleRate' = e.sampleRate
    /\ noiseBuffer' = e.noiseBuffer
    /\ clock' = e.clock
    /\ resumePending' = resumePending + e.resumes
    /\ ctxMade' = IF e.madeCtx THEN ctxMade + 1 ELSE ctxMade
    /\ bufMade' = IF e.madeBuf THEN bufMade + 1 ELSE bufMade
    /\ profiles' = IF e.raised THEN profiles
                   ELSE TableAfterCall(profiles, switchId)
    /\ last' = [ op |-> op, switchId |-> switchId,
                 outcome |-> IF e.raised \/ g.raised THEN "raised"
                             ELSE "returned",
                 ctorFailed |-> e.ctorFailed, bufFailed |-> e.bufFailed,
                 madeCtx |-> e.madeCtx, madeBuf |-> e.madeBuf,
                 hadBuffer |-> ~e.raised /\ e.noiseBuffer # NullBuffer,
                 suspended |-> e.suspended, resumes |-> e.resumes,
                 stateAtReturn |-> e.ctxState,
                 now |-> IF e.raised THEN 0 ELSE e.clock,
                 clockReads |-> IF e.raised THEN 0 ELSE 1,
                 layers |-> g.layers ]

PlayDown ==
    \E switchId \in SwitchIds, h \in Asked :
      LET e == EnsureCtx(h)
          p == Lookup(switchId)
          noise == ~e.raised /\ NoiseWanted(e.noiseBuffer)
          click == ~e.raised /\ ClickWanted(p)
      IN  \E uF, uV \in DrawsIf(noise), uB \in DrawsIf(~e.raised),
             uC \in DrawsIf(click) :
            LET g == IF e.raised THEN Raise
                     ELSE DownLayers(p, e.clock, e.ctx, e.noiseBuffer,
                                     uF, uV, uB, uC)
            IN  Call("playDown", switchId, e, g) /\ UNCHANGED <<jit, graph, app>>

PlayUp ==
    \E switchId \in SwitchIds, h \in Asked :
      LET e == EnsureCtx(h)
          p == Lookup(switchId)
          noise == ~e.raised /\ NoiseWanted(e.noiseBuffer)
          click == ~e.raised /\ ClickWanted(p)
      IN  \E uF \in DrawsIf(noise), uC \in DrawsIf(click) :
            LET g == IF e.raised THEN Raise
                     ELSE UpLayers(p, e.clock, e.ctx, e.noiseBuffer, uF, uC)
            IN  Call("playUp", switchId, e, g) /\ UNCHANGED <<jit, graph, app>>

(***************************************************************************)
(* The host platform.                                                      *)
(***************************************************************************)
\* the rendering thread advances ctx.currentTime while the context runs
Tick ==
    /\ ctx # 0
    /\ ctxState = "running"
    /\ clock < MaxClock
    /\ clock' = clock + 1
    /\ UNCHANGED <<ctx, ctxState, sampleRate, noiseBuffer, resumePending,
                   ctxMade, bufMade, last, profiles, jit, graph, app>>

\* a ctx.resume() request settles, some time after the call that made it
ResumeSettles ==
    /\ resumePending > 0
    /\ resumePending' = resumePending - 1
    /\ ctxState' = "running"
    /\ UNCHANGED <<ctx, sampleRate, noiseBuffer, clock, ctxMade, bufMade,
                   last, profiles, jit, graph, app>>

\* platform power / focus policy suspends a running context
PlatformSuspend ==
    /\ ctx # 0
    /\ ctxState = "running"
    /\ ctxState' = "suspended"
    /\ UNCHANGED <<ctx, sampleRate, noiseBuffer, clock, resumePending,
                   ctxMade, bufMade, last, profiles, jit, graph, app>>

(***************************************************************************)
(* Configurator store (zustand).  Every action records in `event` what    *)
(* was asked of it.                                                        *)
(***************************************************************************)
Categories == {"body", "keycaps", "switches"}

\* OPTIONS: the id and colour of every option, in the order of the arrays
OPTIONS ==
    [ body |->
        << [id |-> "midnight", color |-> "#1a1a2e"],
           [id |-> "silver", color |-> "#8d8d92"],
           [id |-> "arctic", color |-> "#e8e6e3"],
           [id |-> "navy", color |-> "#1e3a5f"],
           [id |-> "burgundy", color |-> "#722f37"],
           [id |-> "forest", color |-> "#1b4332"],
           [id |-> "rose", color |-> "#b76e79"] >>,
      keycaps |->
        << [id |-> "charcoal", color |-> "#2d2d2d"],
           [id |-> "cream", color |-> "#f5f0e8"],
           [id |-> "matcha", color |-> "#7d9b76"],
           [id |-> "lavender", color |-> "#b8a9c9"],
           [id |-> "coral", color |-> "#e07a5f"],
           [id |-> "sky", color |-> "#87ceeb"],
           [id |-> "sunset", color |-> "#f4845f"] >>,
      switches |->
        << [id |-> "red", color |-> "#e63946"],
           [id |-> "blue", color |-> "#457b9d"],
           [id |-> "brown", color |-> "#8b5e3c"],
           [id |-> "speed", color |-> "#adb5bd"],
           [id |-> "black", color |-> "#212529"] >> ]

\* what find gives when no option matches: undefined
NoOption == [id |-> "", color |-> ""]

\* OPTIONS[category].find((o) => o.id === optionId): the first match
Find(category, optionId) ==
    LET opts == OPTIONS[category]
        hits == {i \in 1 .. Len(opts) : opts[i].id = optionId}
    IN  IF hits = {} THEN NoOption
        ELSE opts[CHOOSE i \in hits : \A j \in hits : i <= j]

\* mutant: every selection paints the body
ColorFieldBody(category) == "bodyColor"

\* the colour field that goes with a category
ColorField(category) ==
    IF category = "body" THEN "bodyColor"
    ELSE IF category = "keycaps" THEN "keycapColor"
    ELSE "switchColor"

InitialStore ==
    [ activeCategory |-> "body",
      bodyColor |-> OPTIONS.body[1].color,
      keycapColor |-> OPTIONS.keycaps[1].color,
      switchColor |-> OPTIONS.switches[1].color,
      selectedOptions |-> [ body |-> OPTIONS.body[1].id,
                            keycaps |-> OPTIONS.keycaps[1].id,
                            switches |-> OPTIONS.switches[1].id ],
      soundEnabled |-> TRUE ]

NoEvent ==
    [ type |-> "none", category |-> "", code |-> "", idx |-> NaN,
      repeat |-> FALSE, call |-> "none", owed |-> FALSE, changed |-> FALSE ]

\* mutant: the option stored without being looked up
StoreUnchecked(s, category, optionId) ==
    [s EXCEPT !.selectedOptions[category] = optionId]

\* selectOption(category, optionId) on store state s
Selected(s, category, optionId) ==
    LET option == Find(category, optionId)
    IN  IF option = NoOption THEN s
        ELSE [s EXCEPT !.selectedOptions[category] = optionId,
                       ![ColorField(category)] = option.color]

SelectOption(category, optionId) ==
    /\ store' = Selected(store, category, optionId)
    /\ event' = [NoEvent EXCEPT !.type = "selectOption",
                                !.category = category, !.code = optionId,
                                !.changed = (store' # store)]
    /\ UNCHANGED <<audio, scene>>

\* setActiveCategory: (category) => set({ activeCategory: category })
SetActiveCategory(category) ==
    /\ store' = [store EXCEPT !.activeCategory = category]
    /\ event' = [NoEvent EXCEPT !.type = "setActiveCategory",
                                !.category = category,
                                !.changed = (store' # store)]
    /\ UNCHANGED <<audio, scene>>

\* mutant: the toggle only ever switches the sound on
Unmuted(enabled) == TRUE

\* !state.soundEnabled
Toggled(enabled) == ~enabled

\* toggleSound: () => set((state) => ({ soundEnabled: !state.soundEnabled }))
ToggleSound ==
    /\ store' = [store EXCEPT !.soundEnabled = Toggled(@)]
    /\ event' = [NoEvent EXCEPT !.type = "toggleSound", !.changed = TRUE]
    /\ UNCHANGED <<audio, scene>>

(***************************************************************************)
(* KeyboardModel.  A render reads isSoundOn and switchId from the store;   *)
(* the pointer handlers (useCallback) are those of the latest render, the  *)
(* keydown/keyup listeners those of the latest run of the effect.          *)
(***************************************************************************)
KEY_MAP ==
    [ Backquote |-> 0, Digit1 |-> 1, Digit2 |-> 2, Digit3 |-> 3,
      Digit4 |-> 4, Digit5 |-> 5, Digit6 |-> 6, Digit7 |-> 7,
      Digit8 |-> 8, Digit9 |-> 9, Digit0 |-> 10, Minus |-> 11,
      Equal |-> 12, Backspace |-> 13, Tab |-> 14, KeyQ |-> 15,
      KeyW |-> 16, KeyE |-> 17, KeyR |-> 18, KeyT |-> 19, KeyY |-> 20,
      KeyU |-> 21, KeyI |-> 22, KeyO |-> 23, KeyP |-> 24,
      BracketLeft |-> 25, BracketRight |-> 26, Backslash |-> 27,
      CapsLock |-> 28, KeyA |-> 29, KeyS |-> 30, KeyD |-> 31,
      KeyF |-> 32, KeyG |-> 33, KeyH |-> 34, KeyJ |-> 35, KeyK |-> 36,
      KeyL |-> 37, Semicolon |-> 38, Quote |-> 39, Enter |-> 40,
      ShiftLeft |-> 41, KeyZ |-> 42, KeyX |-> 43, KeyC |-> 44,
      KeyV |-> 45, KeyB |-> 46, KeyN |-> 47, KeyM |-> 48, Comma |-> 49,
      Period |-> 50, Slash |-> 51, ShiftRight |-> 52,
      ControlLeft |-> 53, MetaLeft |-> 54, AltLeft |-> 55,
      Space |-> 56, AltRight |-> 57, ContextMenu |-> 58,
      ControlRight |-> 59 ]

\* KEY_MAP[e.code]; NaN is undefined
KeyIndex(code) == IF code \in DOMAIN KEY_MAP THEN KEY_MAP[code] ELSE NaN

\* nothing rendered, no listener registered
Unrendered == [isSoundOn |-> FALSE, switchId |-> ""]

\* held: the keys physically down; sounding: the keys whose playDown no
\* playUp has answered yet
NoScene ==
    [ mounted |-> FALSE, rendered |-> Unrendered, listening |-> Unrendered,
      pressedKeys |-> {}, sounding |-> {}, held |-> {} ]

\* useConfiguratorStore((s) => s.selectedOptions.switches) and
\* useConfiguratorStore((s) => s.soundEnabled)
Snapshot(s) ==
    [isSoundOn |-> s.soundEnabled, switchId |-> s.selectedOptions.switches]

\* KeyboardModel renders: on mount, and again when a selected value has
\* changed; effects of the render before have run by then
Render ==
    /\ ~scene.mounted \/ Snapshot(store) # scene.rendered
    /\ scene.mounted => scene.listening = scene.rendered
    /\ scene' = [scene EXCEPT !.mounted = TRUE, !.rendered = Snapshot(store)]
    /\ event' = [NoEvent EXCEPT !.type = "render"]
    /\ UNCHANGED <<audio, store>>

\* useEffect(..., [switchId, isSoundOn]): the listeners of the render before
\* are removed and those of the latest render added
Effect ==
    /\ scene.mounted
    /\ scene.listening # scene.rendered
    /\ scene' = [scene EXCEPT !.listening = scene.rendered]
    /\ event' = [NoEvent EXCEPT !.type = "effect"]
    /\ UNCHANGED <<audio, store>>

\* the device the host gives the scene's first call
SceneHost ==
    [ctorOk |-> TRUE, bufOk |-> TRUE, rate |-> 44100, state |-> "running",
     seed |-> 1]

\* soundEngine.playDown(switchId) / soundEngine.playUp(switchId), with a
\* jitter draw of 0
Invoke(op, switchId) ==
    \E h \in (IF NeedsContext(ctx) THEN {SceneHost} ELSE Asked) :
      LET e == EnsureCtx(h)
          p == Lookup(switchId)
          g == IF e.raised THEN Raise
               ELSE IF op = "playDown"
               THEN DownLayers(p, e.clock, e.ctx, e.noiseBuffer, 0, 0, 0, 0)
               ELSE UpLayers(p, e.clock, e.ctx, e.noiseBuffer, 0, 0)
      IN  Call(op, switchId, e, g) /\ UNCHANGED <<jit, graph>>

\* what a handler leaves behind: the pressed keys, the call it made if any
Handled(type, code, idx, repeat, pressed, call, switchId) ==
    /\ scene' = [scene EXCEPT
                   !.pressedKeys = pressed,
                   !.held = IF type = "keydown" THEN @ \cup {code}
                            ELSE IF type = "keyup" THEN @ \ {code} ELSE @,
                   !.sounding = IF call = "playDown" THEN @ \cup {idx}
                                ELSE IF call = "playUp" THEN @ \ {idx}
                                ELSE @]
    /\ event' = [ type |-> type, category |-> "", code |-> code, idx |-> idx,
                  repeat |-> repeat, call |-> call,
                  owed |-> call = "playUp" /\ idx \in scene.sounding,
                  changed |-> pressed # scene.pressedKeys ]
    /\ IF call = "none" THEN UNCHANGED audio ELSE Invoke(call, switchId)
    /\ UNCHANGED store

\* mutant: the repeat flag not looked at
AddsAlways(idx, repeat) == idx # NaN

\* the keydown handler goes on: idx !== undefined and !e.repeat
Adds(idx, repeat) == idx # NaN /\ ~repeat

\* keydown; e.repeat is set by the browser while the key is held
KeyDown(code) ==
    LET idx == KeyIndex(code)
        repeat == code \in scene.held
        l == scene.listening
        adds == l # Unrendered /\ Adds(idx, repeat)
    IN  Handled("keydown", code, idx, repeat,
                IF adds THEN scene.pressedKeys \cup {idx}
                ELSE scene.pressedKeys,
                IF adds /\ l.isSoundOn THEN "playDown" ELSE "none",
                l.switchId)

\* keyup of a key that is down
KeyUp(code) ==
    LET idx == KeyIndex(code)
        l == scene.listening
        deletes == l # Unrendered /\ idx # NaN
    IN  /\ code \in scene.held
        /\ Handled("keyup", code, idx, FALSE,
                   IF deletes THEN scene.pressedKeys \ {idx}
                   ELSE scene.pressedKeys,
                   IF deletes /\ l.isSoundOn THEN "playUp" ELSE "none",
                   l.switchId)

\* handleKeyPointerDown(i, e) of the latest render
PointerDown(i) ==
    /\ scene.mounted
    /\ Handled("pointerdown", "", i, FALSE, scene.pressedKeys \cup {i},
               IF scene.rendered.isSoundOn THEN "playDown" ELSE "none",
               scene.rendered.switchId)

\* handleKeyPointerUp(i) of the latest render
PointerUp(i) ==
    /\ scene.mounted
    /\ Handled("pointerup", "", i, FALSE, scene.pressedKeys \ {i},
               IF scene.rendered.isSoundOn THEN "playUp" ELSE "none",
               scene.rendered.switchId)

\* onPointerLeave of keycap i
PointerLeave(i) ==
    /\ scene.mounted
    /\ Handled("pointerleave", "", i, FALSE, scene.pressedKeys \ {i},
               "none", scene.rendered.switchId)

Init ==
    /\ ctx = 0
    /\ ctxState = "none"
    /\ sampleRate = 0
    /\ noiseBuffer = NullBuffer
    /\ clock = 0
    /\ resumePending = 0
    /\ ctxMade = 0
    /\ bufMade = 0
    /\ last = NoCall
    /\ profiles = PROFILES
    /\ jit = NoJitter
    /\ graph = NoGraph
    /\ store = InitialStore
    /\ scene = NoScene
    /\ event = NoEvent

Next ==
    \/ PlayDown
    \/ PlayUp
    \/ Tick
    \/ ResumeSettles
    \/ PlatformSuspend

Spec == Init /\ [][Next]_vars

(***************************************************************************)
(* jitter on its own: the function applied to arguments of the caller's    *)
(* choice, the amount given or left out.                                   *)
(***************************************************************************)
JitterStep ==
    /\ \E value \in JitterValues, given \in JitterAmounts \cup {NaN},
          u \in UnitDraws :
          jit' = [ value |-> value, given |-> given, u |-> u,
                   result |-> JitterCall(value, given, u),
                   before |-> jit.u ]
    /\ UNCHANGED engine

JitterSpec == Init /\ [][JitterStep]_vars

(***************************************************************************)
(* The calls with their audio nodes: the two operations as above, for two  *)
(* switches and a jitter draw of 0, each recording the nodes it creates.   *)
(***************************************************************************)
GraphIds == {"red", "blue"}

Wired(layers) ==
    LET c == Chains(layers, graph.made)
    IN  /\ c.top <= MaxNodes
        /\ graph' = [ made |-> c.top, base |-> graph.made, nodes |-> c.nodes,
                      edges |-> c.edges,
                      kept |-> Retained({n.id : n \in c.nodes}) ]

GraphDown ==
    \E switchId \in GraphIds, h \in Asked :
      LET e == EnsureCtx(h)
          g == IF e.raised THEN Raise
               ELSE DownLayers(Lookup(switchId), e.clock, e.ctx,
                               e.noiseBuffer, 0, 0, 0, 0)
      IN  Call("playDown", switchId, e, g) /\ Wired(g.layers)
          /\ UNCHANGED <<jit, app>>

GraphUp ==
    \E switchId \in GraphIds, h \in Asked :
      LET e == EnsureCtx(h)
          g == IF e.raised THEN Raise
               ELSE UpLayers(Lookup(switchId), e.clock, e.ctx, e.noiseBuffer,
                             0, 0)
      IN  Call("playUp", switchId, e, g) /\ Wired(g.layers)
          /\ UNCHANGED <<jit, app>>

GraphNext ==
    \/ GraphDown
    \/ GraphUp
    \/ ResumeSettles

GraphSpec == Init /\ [][GraphNext]_vars

(***************************************************************************)
(* The store on its own, driven by the configurator panels: categories    *)
(* and option ids as the panels pass them, and ids no option has.          *)
(***************************************************************************)
OptionInputs ==
    {"midnight", "silver", "rose", "charcoal", "cream", "sunset",
     "red", "blue", "brown", "speed", "black", "purple", ""}

StoreNext ==
    \/ \E category \in Categories : SetActiveCategory(category)
    \/ \E category \in Categories, optionId \in OptionInputs :
          SelectOption(category, optionId)
    \/ ToggleSound

StoreSpec == Init /\ [][StoreNext]_vars

(***************************************************************************)
(* The scene with the store: the sound toggle and the switch panel, the    *)
(* renders that follow them, and key and pointer events on a mapped key    *)
(* and its keycap and on a key the map does not have.                      *)
(***************************************************************************)
KeyCodes == {"KeyA", "F1"}

Keycaps == {29}

SwitchInputs == {"red", "blue", "purple"}

SceneNext ==
    \/ ToggleSound
    \/ \E optionId \in SwitchInputs : SelectOption("switches", optionId)
    \/ Render
    \/ Effect
    \/ \E code \in KeyCodes : KeyDown(code)
    \/ \E code \in KeyCodes : KeyUp(code)
    \/ \E i \in Keycaps : PointerDown(i)
    \/ \E i \in Keycaps : PointerUp(i)
    \/ \E i \in Keycaps : PointerLeave(i)

SceneSpec == Init /\ [][SceneNext]_vars

(***************************************************************************)
(* Properties.                                                             *)
(***************************************************************************)
Called == last.op # "none"

\* ensureCtx returned a context to the latest call
GotDevice == Called /\ ~last.ctorFailed /\ ~last.bufFailed

Noises == {l \in last.layers : l.wave = "buffer"}

Thuds == {l \in last.layers : l.wave = "sine"}

Clicks == {l \in last.layers : l.wave = "square"}

\* the domains of the SwitchProfile fields
ValidProfile(p) ==
    /\ AllFinite({p.baseFreq, p.clickFreq, p.filterFreq, p.filterQ,
                  p.thockDecay, p.clickDecay, p.volume})
    /\ p.baseFreq > 0 /\ p.filterFreq > 0 /\ p.filterQ > 0
    /\ p.thockDecay > 0 /\ p.clickFreq >= 0 /\ p.clickDecay >= 0
    /\ p.volume > 0 /\ p.volume <= 10000

\* C1: a call in which `new AudioContext()` raises returns normally to its
\* caller and schedules no sound, whatever the switchId and on every call.
C1_ConstructionFailureAbsorbed ==
    last.ctorFailed => last.outcome = "returned" /\ last.layers = {}

\* C2: over any sequence of playDown and playUp calls at most one context is
\* constructed and at most one noise buffer built; every call that finds
\* them reuses them.
C2_SingleConstruction ==
    /\ ctxMade <= 1 /\ bufMade <= 1
    /\ ctx \in {0, 1} /\ noiseBuffer.id \in {0, 1}
    /\ \A l \in last.layers : l.ctx = 1
    /\ \A l \in Noises : l.buffer.id = 1
    /\ (GotDevice /\ ~last.madeCtx) => ~last.madeBuf

C2_Witness ==
    /\ last.op = "playUp" /\ last.outcome = "returned"
    /\ ~last.madeCtx /\ ctx = 1 /\ ctxMade = 1 /\ bufMade = 1
    /\ Noises # {}

\* C3: for every switchId the call resolves a valid profile, every field in
\* its domain, and the red profile when switchId is not a key of the table.
C3_LookupTotal ==
    GotDevice =>
        /\ ValidProfile(Lookup(last.switchId))
        /\ last.switchId \notin ProfileIds
              => Lookup(last.switchId) = PROFILES["red"]

\* C4: playDown schedules a click layer, a square-wave source, exactly when
\* the resolved profile has clickFreq > 0: for blue and brown it does, for
\* red, speed, black and every switchId that falls back to red it does not.
C4_ClickIffClickFrequency ==
    (last.op = "playDown" /\ GotDevice) =>
        /\ (Clicks # {}) <=> Gt0(Lookup(last.switchId).clickFreq)
        /\ \A l \in last.layers : l.kind = "click" <=> l.wave = "square"
        /\ last.switchId \in {"blue", "brown"} => Cardinality(Clicks) = 1
        /\ last.switchId \in {"red", "speed", "black", "", "purple"}
              => Clicks = {}

C4_Witness ==
    /\ last.op = "playDown" /\ last.switchId = "blue"
    /\ \E l \in Clicks : l.freq = 4200 * (100000 + 49 * 2 * ClickAmount)

\* C5: playUp never schedules a sine (tonal thud) layer; it schedules only
\* noise-body and click layers.
C5_NoThudOnRelease ==
    last.op = "playUp" =>
        /\ Thuds = {}
        /\ \A l \in last.layers : l.kind \in {"noise", "click"}

C5_Witness ==
    /\ last.op = "playUp" /\ last.switchId = "brown"
    /\ Noises # {} /\ Clicks # {}

\* C6: a call that runs with the context constructed and the noise buffer
\* missing skips the noise-body layer and still completes: playDown
\* schedules the thud and, when clickFreq > 0, the click; playUp schedules
\* the click when clickFreq > 0.
C6_NoiseSkippedRestPlays ==
    (GotDevice /\ ~last.hadBuffer) =>
        /\ Noises = {}
        /\ last.outcome = "returned"
        /\ last.op = "playDown" => Cardinality(Thuds) = 1
        /\ (Clicks # {}) <=> Gt0(Lookup(last.switchId).clickFreq)

\* what holds of C6 on the code: the same, for every switchId that resolves
\* to a SwitchProfile
C6_ForResolvedProfiles ==
    (GotDevice /\ ~last.hadBuffer /\ last.switchId \notin InheritedKeys) =>
        /\ Noises = {}
        /\ last.outcome = "returned"
        /\ last.op = "playDown" => Cardinality(Thuds) = 1
        /\ (Clicks # {}) <=> Gt0(Lookup(last.switchId).clickFreq)

\* C7: a call reads the device clock once, and every layer it schedules has
\* its source start and its envelope start at that one reading.
C7_SingleNow ==
    GotDevice =>
        /\ last.clockReads = 1
        /\ \A l \in last.layers :
              l.start = last.now /\ l.envStart = last.now

C7_Witness ==
    /\ last.op = "playDown" /\ last.now = 1
    /\ Noises # {} /\ Thuds # {} /\ Clicks # {}

C9_ReadyFromFirstCall ==
    /\ ~Called => ctx = 0 /\ noiseBuffer = NullBuffer
    /\ Called => ctx # 0
    /\ ctxMade <= 1

\* C9, amended: the engine is uninitialized (no context, no buffer) until
\* the first call whose context construction succeeds, becomes ready during
\* that call, and the context is never cleared or replaced afterwards.
C9_Lifecycle ==
    /\ ~Called => ctx = 0
    /\ ctx = 0 <=> ctxMade = 0
    /\ ctx = 0 => noiseBuffer = NullBuffer /\ ctxState = "none"
    /\ (Called /\ ~last.ctorFailed) => ctx # 0
    /\ ctxMade <= 1 /\ ctx \in {0, 1}

C9_Witness ==
    /\ Called /\ ~last.madeCtx /\ ~last.ctorFailed
    /\ ctx = 1 /\ ctxMade = 1

\* the state part of C10: one buffer at most, built by the constructing
\* call, and played by every noise-body layer
C10_State ==
    /\ bufMade <= 1
    /\ last.madeBuf <=> (last.madeCtx /\ ~last.bufFailed)
    /\ noiseBuffer # NullBuffer <=> bufMade = 1
    /\ \A l \in Noises : l.buffer = noiseBuffer /\ l.buffer # NullBuffer

\* C10: the noise buffer is built in the call that constructs the context,
\* right after it; once built it is never written or replaced, every
\* noise-body layer plays that buffer, and no call allocates another.
C10_BufferBuiltOnceAndShared ==
    /\ []C10_State
    /\ [][noiseBuffer # NullBuffer => noiseBuffer' = noiseBuffer]_vars

C10_Witness ==
    /\ last.op = "playDown" /\ ~last.madeCtx /\ bufMade = 1
    /\ \E l \in Noises : l.buffer = noiseBuffer /\ l.buffer.data = 2

\* C11: no playDown or playUp call changes the profile table: after any
\* sequence of calls every field of every profile has its initial value.
C11_ProfilesReadOnly == profiles = PROFILES

C11_Witness ==
    /\ last.op = "playDown" /\ last.switchId = "blue" /\ ~last.madeCtx
    /\ \E l \in Noises : l.gain > Exact(PROFILES["blue"].volume)
    /\ profiles["blue"].volume = 3200

\* C12: every source a call starts is scheduled, in the same call, to stop
\* at a time strictly after its start and at most 200 ms after the call's
\* "now", whatever the profile.
C12_EverySourceStops ==
    \A l \in last.layers :
        /\ Finite(l.stop)
        /\ l.stop > l.start
        /\ l.stop <= last.now + 2000

C12_Witness ==
    /\ last.op = "playDown" /\ last.switchId = "blue" /\ last.now = 1
    /\ \E l \in Noises : l.stop = last.now + 1500
    /\ \E l \in Thuds : l.stop = last.now + 500
    /\ \E l \in Clicks : l.start = last.now /\ l.stop = last.now + 350

\* x is value * (1 + d) for some d with |d| <= amount (amount in 1/1000)
InBand(x, value, amount) ==
    /\ value * (100000 - 100 * amount) <= x
    /\ x <= value * (100000 + 100 * amount)

EnvelopeLength(l) == l.envEnd - l.envStart

\* C13: playDown builds, for every profile p: when the buffer exists, a noise
\* layer with bandpass centre jitter(filterFreq), resonance exactly filterQ,
\* initial gain jitter(volume) and envelope length thockDecay; exactly one
\* sine thud at jitter(baseFreq) with gain exactly volume*0.45 and an
\* envelope of 40 ms whatever thockDecay is; and, when clickFreq > 0, a
\* square click with gain volume*0.25 and envelope length clickDecay.  For
\* "brown": filter 1000 Hz +-4 %, body decay 0.07 s, thud 200 Hz +-4 % over
\* 0.04 s, click 2200 Hz +-6 % over 0.015 s.
C13_DownStroke ==
    (GotDevice /\ last.op = "playDown" /\ last.switchId \in ProfileIds) =>
        LET p == PROFILES[last.switchId] IN
        /\ last.outcome = "returned"
        /\ Cardinality(Noises) = IF last.hadBuffer THEN 1 ELSE 0
        /\ \A l \in Noises :
              /\ InBand(l.freq, p.filterFreq, 40)
              /\ l.q = p.filterQ
              /\ InBand(l.gain, p.volume, 40)
              /\ EnvelopeLength(l) = p.thockDecay
        /\ Cardinality(Thuds) = 1
        /\ \A l \in Thuds :
              /\ InBand(l.freq, p.baseFreq, 40)
              /\ l.gain = p.volume * 45 * 1000
              /\ EnvelopeLength(l) = 400
        /\ Cardinality(Clicks) = IF p.clickFreq > 0 THEN 1 ELSE 0
        /\ \A l \in Clicks :
              /\ InBand(l.freq, p.clickFreq, 60)
              /\ l.gain = p.volume * 25 * 1000
              /\ EnvelopeLength(l) = p.clickDecay
        /\ last.layers = Noises \cup Thuds \cup Clicks
        /\ last.switchId = "brown" =>
              /\ \A l \in Noises :
                    /\ 96000000 <= l.freq /\ l.freq <= 104000000
                    /\ EnvelopeLength(l) = 700
              /\ \A l \in Thuds :
                    /\ 19200000 <= l.freq /\ l.freq <= 20800000
                    /\ EnvelopeLength(l) = 400
              /\ \A l \in Clicks :
                    /\ 206800000 <= l.freq /\ l.freq <= 233200000
                    /\ EnvelopeLength(l) = 150

C13_Witness ==
    /\ last.op = "playDown" /\ last.switchId = "brown"
    /\ \E l \in Noises : l.freq = 96000000 /\ l.gain > Exact(2800)
    /\ \E l \in Thuds : l.freq = 20784000 /\ l.gain = 126000000
    /\ \E l \in Clicks : l.freq = 206800000 /\ l.gain = 70000000

\* C14: playUp builds, for every profile p: when the buffer exists, a noise
\* layer with centre taken from filterFreq*1.4, resonance filterQ*0.8, gain
\* exactly volume*0.35 (no jitter) and envelope length thockDecay*0.6; and,
\* only when clickFreq > 0, a click with frequency taken from clickFreq*0.8,
\* gain volume*0.15 and envelope length clickDecay*0.7.  For "speed": no
\* click, no thud, filter about 1680 Hz, decay 0.021 s.
C14_Release ==
    (GotDevice /\ last.op = "playUp" /\ last.switchId \in ProfileIds) =>
        LET p == PROFILES[last.switchId] IN
        /\ last.outcome = "returned"
        /\ Cardinality(Noises) = IF last.hadBuffer THEN 1 ELSE 0
        /\ \A l \in Noises :
              /\ InBand(l.freq, (p.filterFreq * 14) \div 10, 40)
              /\ l.q * 10 = p.filterQ * 8
              /\ l.gain = p.volume * 35 * 1000
              /\ EnvelopeLength(l) * 10 = p.thockDecay * 6
        /\ Cardinality(Clicks) = IF p.clickFreq > 0 THEN 1 ELSE 0
        /\ \A l \in Clicks :
              /\ InBand(l.freq, (p.clickFreq * 8) \div 10, 40)
              /\ l.gain = p.volume * 15 * 1000
              /\ EnvelopeLength(l) * 10 = p.clickDecay * 7
        /\ last.layers = Noises \cup Clicks
        /\ last.switchId = "speed" =>
              /\ Clicks = {} /\ Thuds = {}
              /\ \A l \in Noises :
                    /\ 161280000 <= l.freq /\ l.freq <= 174720000
                    /\ EnvelopeLength(l) = 210

C14_Witness ==
    /\ last.op = "playUp" /\ last.switchId = "speed" /\ last.layers # {}
    /\ \A l \in last.layers :
          /\ l.wave = "buffer" /\ l.freq = 161280000 /\ l.q = 80
          /\ l.gain = 70000000 /\ EnvelopeLength(l) = 210

\* the amount jitter worked with
AmountUsed == IF jit.given = NaN THEN 40 ELSE jit.given

\* C15: jitter(value, amount) returns value * (1 + u*2*amount) for a draw u
\* in [-0.5, 0.5): with amount 0 the result is exactly value; with an amount
\* a in (0, 1) the result lies in [value*(1-a), value*(1+a)]; the amount
\* left out counts as 0.04; and what a call draws does not depend on the
\* calls before it.
C15_Jitter ==
    /\ -50 <= jit.u /\ jit.u < 50
    /\ jit.result = jit.value * 100000 + jit.value * jit.u * 2 * AmountUsed
    /\ jit.given = 0 => jit.result = jit.value * 100000
    /\ (0 < AmountUsed /\ AmountUsed < 1000) =>
          /\ jit.value * (100000 - 100 * AmountUsed) <= jit.result
          /\ jit.result <= jit.value * (100000 + 100 * AmountUsed)
    /\ jit.given = NaN =>
          /\ jit.value * 96000 <= jit.result
          /\ jit.result <= jit.value * 104000
    /\ \A u \in UnitDraws :
          ENABLED (JitterStep /\ jit'.u = u /\ jit'.before = jit.u)

C15_Witness ==
    /\ jit.value = 4200 /\ jit.given = 999 /\ jit.u = -50
    /\ jit.result = 420000 /\ jit.before = 49

\* indices of a buffer of n samples at which the samples are examined
SampleIndexes(n) == {i \in {0, 1, 2, n \div 2, n - 2, n - 1} : 0 <= i /\ i < n}

\* every sample is a factor of magnitude at most 1 times exp of an exponent
\* that is 0 at index 0 and falls from each index to the next, so the
\* envelope is exactly 1 at index 0, strictly decreasing, and no sample
\* exceeds 1 in magnitude
ShapedNoise(n) ==
    /\ \A r \in RandomDraws : -100 <= NoiseFactor(r) /\ NoiseFactor(r) <= 100
    /\ EnvExponentByLen(0) = 0
    /\ \A i \in SampleIndexes(n) :
          /\ EnvExponentByLen(i) <= 0
          /\ EnvExponentByLen(i + 1) < EnvExponentByLen(i)

\* C16 as stated: the noise buffer is mono with length N equal to
\* round(sampleRate * 0.1) for every device sample rate, all N samples are
\* written, every sample has magnitude at most 1, and the envelope
\* multiplier is exactly 1 at i = 0 and strictly decreasing.
C16_LengthRounded ==
    noiseBuffer # NullBuffer =>
        /\ noiseBuffer.channels = 1
        /\ noiseBuffer.len = (sampleRate + 5) \div 10
        /\ noiseBuffer.written = noiseBuffer.len
        /\ ShapedNoise(noiseBuffer.len)

\* C16, amended: the length N is sampleRate * 0.1 with its fraction dropped
\* (N <= sampleRate * 0.1 < N + 1); the rest as stated.
C16_LengthTruncated ==
    noiseBuffer # NullBuffer =>
        /\ noiseBuffer.channels = 1
        /\ noiseBuffer.len * 10 <= sampleRate
        /\ sampleRate < (noiseBuffer.len + 1) * 10
        /\ noiseBuffer.len > 0
        /\ noiseBuffer.written = noiseBuffer.len
        /\ ShapedNoise(noiseBuffer.len)

C16_Witness ==
    /\ last.madeBuf /\ sampleRate = 11025
    /\ noiseBuffer.len = 1102 /\ noiseBuffer.written = 1102
    /\ noiseBuffer.channels = 1

\* C17: the profile table holds exactly the five identifiers "red", "blue",
\* "brown", "speed" and "black"; every profile has baseFreq > 0,
\* filterFreq > 0, filterQ > 0, thockDecay > 0, clickFreq >= 0,
\* clickDecay >= 0 and volume in (0, 1]; and clickDecay > 0 whenever
\* clickFreq > 0.
C17_TableDomains ==
    /\ DOMAIN profiles = {"red", "blue", "brown", "speed", "black"}
    /\ \A id \in DOMAIN profiles :
          LET p == profiles[id] IN
          /\ p.baseFreq > 0 /\ p.filterFreq > 0 /\ p.filterQ > 0
          /\ p.thockDecay > 0 /\ p.clickFreq >= 0 /\ p.clickDecay >= 0
          /\ 0 < p.volume /\ p.volume <= 10000
          /\ p.clickFreq > 0 => p.clickDecay > 0

C17_Witness ==
    /\ last.op = "playUp" /\ last.switchId = "black"
    /\ last.outcome = "returned" /\ Noises # {} /\ Clicks = {}
    /\ profiles["black"].clickFreq = 0 /\ profiles["black"].clickDecay = 0
    /\ profiles["blue"].clickFreq = 4200 /\ profiles["blue"].clickDecay = 300

\* C18 as stated: masterVolume is the gain ceiling: for every profile and
\* every jitter draw the initial gain of every layer that playDown or playUp
\* schedules is at most the profile's volume.
C18_VolumeIsCeiling ==
    (GotDevice /\ last.switchId \in ProfileIds) =>
        \A l \in last.layers : l.gain <= Exact(PROFILES[last.switchId].volume)

\* C18, amended: the initial gain of every layer is at most volume * 1.04;
\* only the noise layer of playDown, whose gain is jitter(volume), can
\* exceed volume, and every other layer starts at no more than
\* volume * 0.45.
C18_VolumeWithinJitter ==
    (GotDevice /\ last.switchId \in ProfileIds) =>
        LET v == PROFILES[last.switchId].volume IN
        \A l \in last.layers :
            /\ l.gain <= v * 104000
            /\ l.gain > 0
            /\ (last.op = "playUp" \/ l.wave # "buffer") =>
                  l.gain <= v * 45000

C18_Witness ==
    /\ last.op = "playDown" /\ last.switchId = "red"
    /\ \E l \in Noises : l.gain = 2500 * 103920
    /\ \E l \in Thuds : l.gain = 2500 * 45000

\* what a layer sounds like: its kind and base parameters, with every time
\* taken relative to the start of the layer
Timbre(l) ==
    [ kind |-> l.kind, wave |-> l.wave, freq |-> l.freq, q |-> l.q,
      gain |-> l.gain, target |-> l.target,
      envelope |-> l.envEnd - l.envStart, lifetime |-> l.stop - l.start ]

\* the layers owed to a call, worked out from nothing but the operation, the
\* switchId, whether the noise buffer exists and the jitter draws: the
\* table is the initial one, the clock reads 0, the buffer is any buffer
OwedLayers(op, switchId, hasBuffer, uF, uV, uB, uC) ==
    LET p == IF switchId \in ProfileIds THEN PROFILES[switchId]
             ELSE IF switchId \in InheritedKeys THEN InheritedValue
             ELSE PROFILES["red"]
        buf == IF hasBuffer THEN [NullBuffer EXCEPT !.id = 1] ELSE NullBuffer
    IN  IF op = "playDown"
        THEN DownLayers(p, 0, 0, buf, uF, uV, uB, uC).layers
        ELSE UpLayers(p, 0, 0, buf, uF, uC).layers

\* C19: the engine holds no current switch and no per-sound state: the
\* layers and base parameters a call schedules are a function of that call's
\* switchId, its jitter draws and whether the noise buffer exists, and of
\* nothing else, so the calls made before (with whatever switchIds) leave no
\* trace in what a later call schedules.
C19_NoCurrentSwitch ==
    GotDevice =>
        \E uF, uV, uB, uC \in JitterDraws :
            {Timbre(l) : l \in last.layers} =
            {Timbre(l) : l \in OwedLayers(last.op, last.switchId,
                                          last.hadBuffer, uF, uV, uB, uC)}

C19_Witness ==
    /\ last.op = "playUp" /\ last.switchId = "blue"
    /\ ~last.madeCtx /\ ctxMade = 1 /\ last.now = 1 /\ last.suspended
    /\ \E l \in Noises : l.freq = 2520 * 96000
    /\ \E l \in Clicks : l.freq = 3360 * 103920

NodeIds == {n.id : n \in graph.nodes}

\* C20: the signal graphs of different calls are independent and not
\* addressable: every source, filter and gain node is created inside
\* exactly one call and connected only to nodes of that call and to the
\* shared output; no node of an earlier call is referenced by a later one;
\* and after the call the engine's own state refers to no node of the graph.
C20_GraphsIndependent ==
    /\ \A n \in graph.nodes : graph.base < n.id /\ n.id <= graph.made
    /\ Cardinality(graph.nodes) = graph.made - graph.base
    /\ Cardinality(graph.nodes) =
          3 * Cardinality(Noises) + 2 * Cardinality(Thuds)
          + 2 * Cardinality(Clicks)
    /\ \A e \in graph.edges :
          /\ e[1] \in NodeIds
          /\ e[2] \in NodeIds \cup {Destination}
          /\ e[2] = Destination \/ e[2] > graph.base
    /\ \A n \in graph.nodes : \E e \in graph.edges : e[1] = n.id
    /\ graph.kept = {}

C20_Witness ==
    /\ last.op = "playDown" /\ last.switchId = "blue" /\ ~last.madeCtx
    /\ graph.base = 7 /\ graph.made = 14
    /\ Cardinality(graph.nodes) = 7 /\ Cardinality(graph.edges) = 7
    /\ <<10, Destination>> \in graph.edges

\* C21: for every profile and every layer the source's scheduled stop is
\* not earlier than the end of that layer's gain envelope: the noise body
\* stops at now+0.15 s (playDown) or now+0.1 s (playUp), the thud at
\* now+0.05 s against 0.04 s, the click 5 ms after its envelope ends.
C21_StopAfterEnvelope ==
    \A l \in last.layers :
        /\ l.stop >= l.envEnd
        /\ l.wave = "buffer" =>
              l.stop = last.now + (IF last.op = "playDown" THEN 1500 ELSE 1000)
        /\ l.wave = "sine" =>
              l.stop = last.now + 500 /\ l.envEnd = last.now + 400
        /\ l.wave = "square" => l.stop = l.envEnd + 50

C21_Witness ==
    /\ last.op = "playDown" /\ last.switchId = "black"
    /\ \E l \in Noises : l.envEnd = last.now + 1000 /\ l.stop = last.now + 1500
    /\ \E l \in Thuds : l.envEnd = last.now + 400 /\ l.stop = last.now + 500

\* the latest event made the scene call the sound engine
Invoked == event.call # "none"

\* C22: the upstream sound gate holds under every interleaving of
\* toggleSound, re-renders with handler re-registration and keyboard or
\* pointer events: the scene never invokes playDown or playUp while the
\* store's soundEnabled is false (and the engine, which does no muting,
\* emits on every call it receives).
C22_GateHolds ==
    Invoked =>
        /\ store.soundEnabled
        /\ last.op = event.call /\ last.outcome = "returned"
        /\ last.layers # {}

\* what does hold: a call is gated by the value of soundEnabled that the
\* handler's render read, and the engine emits on every call it receives
C22_GateOfTheRender ==
    Invoked =>
        /\ IF event.type \in {"keydown", "keyup"}
           THEN scene.listening.isSoundOn ELSE scene.rendered.isSoundOn
        /\ last.op = event.call /\ last.outcome = "returned"
        /\ last.layers # {}

\* the frequency the click of the latest call started from
ClickBase ==
    LET f == Lookup(last.switchId).clickFreq
    IN  IF last.op = "playDown" THEN f ELSE (f * 8) \div 10

\* x is value jittered by `amount` with one of the draws of the model
JitteredBy(x, value, amount) ==
    \E u \in JitterDraws : x = value * (100000 + u * 2 * amount)

\* C23: whenever a click layer is scheduled, its frequency is perturbed
\* with jitter amount 0.06, wider than the 0.04 of the other jittered
\* parameters (noise filter centre, noise gain, thud frequency), in playDown
\* and in playUp alike.
C23_ClickJitterWider ==
    GotDevice =>
        /\ \A l \in Clicks : JitteredBy(l.freq, ClickBase, 60)
        /\ \A l \in Thuds :
              JitteredBy(l.freq, Lookup(last.switchId).baseFreq, 40)
        /\ \A l \in Noises :
              JitteredBy(l.freq,
                         IF last.op = "playDown"
                         THEN Lookup(last.switchId).filterFreq
                         ELSE (Lookup(last.switchId).filterFreq * 14) \div 10,
                         40)

\* what does hold: the click of playDown is jittered by 0.06, the click of
\* playUp by the default 0.04
C23_ClickJitterPerStroke ==
    GotDevice =>
        \A l \in Clicks :
            JitteredBy(l.freq, ClickBase,
                       IF last.op = "playDown" THEN 60 ELSE 40)

\* the layers the other stroke of the latest call's switch can schedule,
\* over every jitter draw
OtherStroke ==
    UNION { OwedLayers(IF last.op = "playDown" THEN "playUp" ELSE "playDown",
                       last.switchId, TRUE, uF, uV, uB, uC) :
            uF \in JitterDraws, uV \in JitterDraws,
            uB \in JitterDraws, uC \in JitterDraws }

DownStroke == IF last.op = "playDown" THEN last.layers ELSE OtherStroke

Release == IF last.op = "playUp" THEN last.layers ELSE OtherStroke

\* C24: the release never reuses the down-stroke's parameters: for every
\* profile and every pair of jitter draws, playUp's noise layer differs from
\* playDown's in filter centre (strictly higher), resonance, gain (strictly
\* smaller) and envelope length (strictly smaller), and playUp's click layer
\* has a strictly lower frequency, gain and envelope length than playDown's.
C24_ReleaseDiffers ==
    GotDevice =>
        \A d \in DownStroke, u \in Release :
            /\ (d.kind = "noise" /\ u.kind = "noise") =>
                   /\ u.freq > d.freq
                   /\ u.q # d.q
                   /\ u.gain < d.gain
                   /\ EnvelopeLength(u) < EnvelopeLength(d)
            /\ (d.kind = "click" /\ u.kind = "click") =>
                   /\ u.freq < d.freq
                   /\ u.gain < d.gain
                   /\ EnvelopeLength(u) < EnvelopeLength(d)

C24_Witness ==
    /\ GotDevice /\ last.op = "playUp" /\ last.switchId = "blue"
    /\ Noises # {} /\ Clicks # {}
    /\ \E d \in DownStroke : d.kind = "noise"
    /\ \E d \in DownStroke : d.kind = "click"

\* C25: every gain envelope the engine schedules is well-formed for an
\* exponential ramp: the ramp's target value is strictly positive, the initial
\* gain is strictly greater than the target, and the ramp's end time is
\* strictly later than its start time, for every profile and jitter draw.
C25_EnvelopeWellFormed ==
    \A l \in last.layers :
        /\ l.target > 0
        /\ l.gain > l.target
        /\ l.envEnd > l.envStart

C25_Witness ==
    /\ GotDevice /\ last.op = "playDown" /\ last.switchId = "black"
    /\ last.now = 1 /\ Noises # {}
    /\ \E l \in Thuds :
          /\ l.gain = 135000000 /\ l.target = 1000000
          /\ l.envStart = 1 /\ l.envEnd = 401

\* the ids of the options of a category
OptionIds(category) ==
    {OPTIONS[category][i].id : i \in 1..Len(OPTIONS[category])}

\* C26: every switch id the scene passes to playDown/playUp is one of the
\* five profile ids: the store's selectedOptions.switches is always an id of
\* OPTIONS.switches, and the id set of OPTIONS.switches equals the key set of
\* the profile table, so the engine's fallback lookup is never exercised by
\* the application itself.
C26_SceneIdsAreProfiles ==
    /\ store.selectedOptions.switches \in OptionIds("switches")
    /\ OptionIds("switches") = DOMAIN profiles
    /\ scene.mounted => scene.rendered.switchId \in DOMAIN profiles
    /\ Invoked =>
          /\ last.op = event.call
          /\ last.switchId \in DOMAIN profiles
          /\ last.switchId \in OptionIds("switches")

C26_Witness ==
    /\ Invoked /\ event.type = "keyup" /\ last.op = "playUp"
    /\ last.switchId = "blue" /\ store.selectedOptions.switches = "red"

\* the colour a store state holds for a category
ColorOf(s, category) ==
    CASE category = "body" -> s.bodyColor
      [] category = "keycaps" -> s.keycapColor
      [] category = "switches" -> s.switchColor

\* each category's selected id is an option of the category and the three
\* colours are those of the selected options
StoreConsistent(s) ==
    \A category \in Categories :
        /\ s.selectedOptions[category] \in OptionIds(category)
        /\ ColorOf(s, category) =
               Find(category, s.selectedOptions[category]).color

\* what one selectOption(category, optionId) did to the store
SelectStep(category, optionId) ==
    IF optionId \notin OptionIds(category)
    THEN store' = store
    ELSE /\ store'.selectedOptions[category] = optionId
         /\ ColorOf(store', category) = Find(category, optionId).color
         /\ \A other \in Categories \ {category} :
               /\ store'.selectedOptions[other] = store.selectedOptions[other]
               /\ ColorOf(store', other) = ColorOf(store, other)
         /\ store'.activeCategory = store.activeCategory
         /\ store'.soundEnabled = store.soundEnabled

\* C27: in every reachable store state each category's selected id is an id
\* of OPTIONS[category] and bodyColor, keycapColor and switchColor equal the
\* colours of the selected options; selectOption with an id that is not in
\* the category leaves the whole state unchanged, and a valid selectOption
\* changes only that category's id and colour.
C27_StoreConsistent ==
    /\ [](StoreConsistent(store))
    /\ [][event'.type = "selectOption" =>
              SelectStep(event'.category, event'.code)]_vars

C27_Witness ==
    /\ event.type = "selectOption" /\ event.category = "keycaps"
    /\ event.code = "red" /\ ~event.changed
    /\ store.selectedOptions =
           [body |-> "rose", keycaps |-> "sunset", switches |-> "black"]
    /\ store.bodyColor = "#b76e79" /\ store.keycapColor = "#f4845f"
    /\ store.switchColor = "#212529"

\* the latest event was a keydown the handler gives up on: a code that is
\* not in KEY_MAP, or the auto-repeat of a held key
IgnoredKeyDown(e) == e.type = "keydown" /\ (e.idx = NaN \/ e.repeat)

\* what the latest keyboard event did
KeyEventGated ==
    /\ IgnoredKeyDown(event) => event.call = "none" /\ ~event.changed
    /\ (event.type = "keyup" /\ event.idx = NaN) => event.call = "none"
    /\ (event.type = "keydown" /\ event.call = "playDown") =>
           /\ event.idx # NaN /\ ~event.repeat
           /\ last.op = "playDown"
    /\ (event.type = "keydown" /\ event.idx # NaN /\ ~event.repeat
            /\ scene.listening.isSoundOn) => event.call = "playDown"

\* C28: a keyboard event triggers a sound only for a mapped, non-repeating
\* key: a keydown whose code is not in KEY_MAP, or whose repeat flag is set,
\* never invokes playDown and never changes the pressed-key set; a keyup
\* whose code is not in KEY_MAP never invokes playUp.  So a held key gets the
\* one playDown of its first keydown, however many repeat events arrive.
C28_OnlyMappedFirstKeyDown ==
    /\ []KeyEventGated
    /\ [][ /\ IgnoredKeyDown(event') =>
                 UNCHANGED <<audio, scene.pressedKeys, scene.sounding>>
           /\ (event'.type = "keyup" /\ event'.idx = NaN) =>
                 UNCHANGED <<audio, scene.pressedKeys, scene.sounding>> ]_vars

C28_Witness ==
    /\ event.type = "keydown" /\ event.code = "KeyA" /\ event.repeat
    /\ scene.listening.isSoundOn /\ store.soundEnabled
    /\ scene.sounding = {29} /\ scene.pressedKeys = {29}
    /\ event.call = "none" /\ last.op = "playDown"

\* C29: press and release sounds alternate per key: over any sequence of
\* keydown, keyup, pointerdown, pointerup, pointerleave and sound-toggle
\* events, every playUp the scene invokes for a key index is preceded by a
\* playDown for that same key index that no playUp has answered yet, and a
\* key index whose playDown is unanswered is in the pressed-key set until its
\* release sounds.
C29_PressReleaseAlternate ==
    /\ event.call = "playUp" => event.owed
    /\ scene.sounding \subseteq scene.pressedKeys

\* what does hold: the pressed-key set follows the events alone, whatever
\* was played: a key index is in it after its first mapped keydown or its
\* pointerdown, and out of it after its keyup, pointerup or pointerleave
C29_PressedFollowsEvents ==
    /\ (event.type = "pointerdown"
          \/ (event.type = "keydown" /\ event.idx # NaN /\ ~event.repeat
                /\ scene.listening # Unrendered)) =>
           event.idx \in scene.pressedKeys
    /\ (event.type \in {"pointerup", "pointerleave"}
          \/ (event.type = "keyup" /\ event.idx # NaN
                /\ scene.listening # Unrendered)) =>
           event.idx \notin scene.pressedKeys
    /\ event.call = "playUp" => event.type \in {"keyup", "pointerup"}
    /\ event.call = "playDown" => event.type \in {"keydown", "pointerdown"}

====
